---------------------------- MODULE Spec2Model ----------------------------
(***************************************************************************)
(* Ownership and lifetime layer of ndk/include_ndk/android/                *)
(* binder_auto_utils.h: the single-owner box ScopedA<T, Destroy> with its  *)
(* specializations, and the strong binder reference SpAIBinder.            *)
(*                                                                         *)
(* Handles are small integers; Null (0) is nullptr.  The external runtime  *)
(* (AIBinder_incStrong, AIBinder_decStrong, AIBinder_Weak_promote,         *)
(* AStatus_isOk and the *_delete functions) is not part of the header: it  *)
(* is modelled by its contract, a strong count per binder handle and a     *)
(* log of the Destroy calls.                                               *)
(***************************************************************************)
EXTENDS Integers, FiniteSets, Sequences, TLC

Null == 0

\* Bounds of the model.
NHandle == 2
NBox == 2
NSp == 2
NThread == 2
MaxOps == 5

Handles == 1..NHandle
HandleOrNull == Handles \cup {Null}
Boxes == 1..NBox
Sps == 1..NSp
AllThreads == 1..NThread

\* The value of owner[i] for an instance several threads use at once.
SharedByAll == 0

\* The four instantiations of ScopedA<T, Destroy> the header declares.
Kinds == {"AParcel", "AStatus", "AIBinder_DeathRecipient", "AIBinder_Weak"}

VARIABLES
    \* ---- ScopedA<T, Destroy> ----
    kind,          \* the instantiation the boxes of this run belong to
    boxState,      \* box -> "unborn" | "live" | "dead"
    mT,            \* box -> the handle field mT
    movedFrom,     \* box -> TRUE once it was the source of a move construction
    storedIn,      \* box -> handle -> times the handle was stored into the box
    destroyedBy,   \* box -> handle -> Destroy calls the box made on the handle
    nullDestroys,  \* box -> Destroy calls the box made with nullptr
    fresh,         \* TRUE while every handle passed to a box was fresh
    isOkRec,       \* what the last isOk() call saw and returned
    promoteRec,    \* what the last promote() call saw and returned
    slotLost,      \* box -> handle -> times it was overwritten through getR()
    getRec,        \* what the last get() call returned
    \* ---- SpAIBinder ----
    spState,       \* instance -> "unborn" | "live" | "dead"
    mBinder,       \* instance -> the handle field mBinder
    owner,         \* instance -> the thread that uses it
    strong,        \* binder handle -> strong count kept by the runtime
    ext,           \* binder handle -> units acquired by callers, not yet handed over
    nullDecs,      \* AIBinder_decStrong calls made with nullptr
    copied,        \* TRUE once some instance was copied from one holding a handle
    \* ---- threads running SpAIBinder operations ----
    threads,       \* the threads of this run
    pc,            \* thread -> "idle" | "set_dec" | "set_store"
    self,          \* thread -> the instance its operation runs on
    binderArg,     \* thread -> the argument `binder` of the set() in progress
    op,            \* thread -> the operation in progress
    rec,           \* thread -> what its copy/assignment in progress started from
    nops           \* operations begun so far

boxVars == <<kind, boxState, mT, movedFrom, storedIn, destroyedBy, nullDestroys,
             fresh, isOkRec>>
spVars == <<spState, mBinder, owner, strong, ext, nullDecs, copied>>
thrVars == <<pc, self, binderArg, op, rec>>
accVars == <<slotLost, getRec>>
vars == <<boxVars, promoteRec, accVars, spVars, threads, thrVars, nops>>

NoRec == [kind |-> "none"]

-----------------------------------------------------------------------------
(* Initial state: nothing constructed, every count zero. *)

InitCommon ==
    /\ kind \in Kinds
    /\ boxState = [b \in Boxes |-> "unborn"]
    /\ mT = [b \in Boxes |-> Null]
    /\ movedFrom = [b \in Boxes |-> FALSE]
    /\ storedIn = [b \in Boxes |-> [h \in Handles |-> 0]]
    /\ destroyedBy = [b \in Boxes |-> [h \in Handles |-> 0]]
    /\ nullDestroys = [b \in Boxes |-> 0]
    /\ fresh = TRUE
    /\ isOkRec = NoRec
    /\ promoteRec = NoRec
    /\ slotLost = [b \in Boxes |-> [h \in Handles |-> 0]]
    /\ getRec = NoRec
    /\ spState = [i \in Sps |-> "unborn"]
    /\ mBinder = [i \in Sps |-> Null]
    /\ owner = [i \in Sps |-> 1]
    /\ strong = [h \in Handles |-> 0]
    /\ ext = [h \in Handles |-> 0]
    /\ nullDecs = 0
    /\ copied = FALSE
    /\ pc = [t \in AllThreads |-> "idle"]
    /\ self = [t \in AllThreads |-> 1]
    /\ binderArg = [t \in AllThreads |-> Null]
    /\ op = [t \in AllThreads |-> "none"]
    /\ rec = [t \in AllThreads |-> NoRec]
    /\ nops = 0

-----------------------------------------------------------------------------
(* ScopedA<T, Destroy> *)

\* A handle whose resource some box has already passed to Destroy.
Freed(h) == h # Null /\ \E b \in Boxes : destroyedBy[b][h] > 0

\* A handle no live box holds and that was never destroyed.
IsFresh(h) ==
    /\ ~Freed(h)
    /\ \A b \in Boxes : ~(boxState[b] = "live" /\ mT[b] = h)

\* The call Destroy(mT) of set(): the box passes the handle it holds to the
\* delete function, whatever it is.
Destroy(b, h) ==
    IF h = Null
    THEN /\ nullDestroys' = [nullDestroys EXCEPT ![b] = @ + 1]
         /\ UNCHANGED destroyedBy
    ELSE /\ destroyedBy' = [destroyedBy EXCEPT ![b][h] = @ + 1]
         /\ UNCHANGED nullDestroys

\* Book-keeping of a handle stored into box b.
Stored(b, t) ==
    /\ storedIn' = IF t = Null THEN storedIn
                   ELSE [storedIn EXCEPT ![b][t] = @ + 1]
    /\ fresh' = (fresh /\ (t = Null \/ IsFresh(t)))

\* A set() that forgets the handle it replaces.
set_noDestroy(b, t) ==
    /\ mT' = [mT EXCEPT ![b] = t]
    /\ UNCHANGED <<destroyedBy, nullDestroys>>

\* A set() that calls Destroy only for a non-null handle.
set_guarded(b, t) ==
    /\ IF mT[b] # Null THEN Destroy(b, mT[b])
       ELSE UNCHANGED <<destroyedBy, nullDestroys>>
    /\ mT' = [mT EXCEPT ![b] = t]

\* void set(T* t) { Destroy(mT); mT = t; }
set(b, t) ==
    /\ Destroy(b, mT[b])
    /\ mT' = [mT EXCEPT ![b] = t]

\* explicit ScopedA(T* t = nullptr) : mT(t) {}
ScopedA_ctor(b, t) ==
    /\ nops < MaxOps
    /\ boxState[b] = "unborn"
    /\ boxState' = [boxState EXCEPT ![b] = "live"]
    /\ mT' = [mT EXCEPT ![b] = t]
    /\ Stored(b, t)
    /\ nops' = nops + 1
    /\ UNCHANGED <<kind, movedFrom, destroyedBy, nullDestroys, isOkRec, promoteRec, accVars,
                   spVars, threads, thrVars>>

\* a.set(t) on a live box
ScopedA_set(b, t) ==
    /\ nops < MaxOps
    /\ boxState[b] = "live"
    /\ set(b, t)
    /\ Stored(b, t)
    /\ movedFrom' = [movedFrom EXCEPT ![b] = FALSE]
    /\ nops' = nops + 1
    /\ UNCHANGED <<kind, boxState, isOkRec, promoteRec, accVars, spVars, threads, thrVars>>

\* ~ScopedA() { set(nullptr); }
ScopedA_dtor(b) ==
    /\ nops < MaxOps
    /\ boxState[b] = "live"
    /\ set(b, Null)
    /\ boxState' = [boxState EXCEPT ![b] = "dead"]
    /\ nops' = nops + 1
    /\ UNCHANGED <<kind, movedFrom, storedIn, fresh, isOkRec, promoteRec, accVars,
                   spVars, threads, thrVars>>

\* ScopedA(ScopedA&&) = default;  the defaulted move constructor moves the
\* member mT, and moving a raw pointer copies it: the source keeps its value.
ScopedA_move(dst, src) ==
    /\ nops < MaxOps
    /\ dst # src
    /\ boxState[dst] = "unborn"
    /\ boxState[src] = "live"
    /\ boxState' = [boxState EXCEPT ![dst] = "live"]
    /\ mT' = [mT EXCEPT ![dst] = mT[src]]
    /\ storedIn' = IF mT[src] = Null THEN storedIn
                   ELSE [storedIn EXCEPT ![dst][mT[src]] = @ + 1]
    /\ movedFrom' = [movedFrom EXCEPT ![src] = TRUE]
    /\ nops' = nops + 1
    /\ UNCHANGED <<kind, destroyedBy, nullDestroys, fresh, isOkRec, promoteRec, accVars,
                   spVars, threads, thrVars>>


-----------------------------------------------------------------------------
(* ScopedAStatus::isOk *)

\* The statuses of the run that report success.
OkStatuses == {h \in Handles : h % 2 = 1}

\* The external predicate AStatus_isOk: the answers it can give for h.  On
\* nullptr it answers false; on a status that was already deleted the read is
\* of freed memory and either answer can come back.
AStatus_isOk(h) ==
    IF h = Null THEN {FALSE}
    ELSE IF Freed(h) THEN BOOLEAN
    ELSE {h \in OkStatuses}

\* A wrapper that asks the external predicate without looking at the handle.
isOk_unguarded(held) ==
    {[kind |-> "isOk", held |-> held, called |-> TRUE, ext |-> e, result |-> e] :
        e \in AStatus_isOk(held)}

\* bool isOk() { return get() != nullptr && AStatus_isOk(get()); }
\* The outcomes of one call: whether the external predicate was called, what
\* it answered, and what isOk() returns.
isOk(held) ==
    IF held # Null
    THEN {[kind |-> "isOk", held |-> held, called |-> TRUE, ext |-> e, result |-> e] :
            e \in AStatus_isOk(held)}
    ELSE {[kind |-> "isOk", held |-> held, called |-> FALSE, ext |-> FALSE,
           result |-> FALSE]}

ScopedAStatus_isOk(b) ==
    /\ nops < MaxOps
    /\ kind = "AStatus"
    /\ boxState[b] = "live"
    /\ isOkRec' \in isOk(mT[b])
    /\ nops' = nops + 1
    /\ UNCHANGED <<kind, boxState, mT, movedFrom, storedIn, destroyedBy, nullDestroys,
                   fresh, promoteRec, accVars, spVars, threads, thrVars>>

-----------------------------------------------------------------------------
(* The external strong count *)

\* AIBinder_incStrong(binder): one more strong unit; nothing on nullptr.
AIBinder_incStrong(s, h) ==
    IF h = Null THEN s ELSE [s EXCEPT ![h] = @ + 1]

\* AIBinder_decStrong(binder): one strong unit less.
AIBinder_decStrong(s, h) ==
    IF h = Null THEN s ELSE [s EXCEPT ![h] = @ - 1]

\* The binder a weak token refers to.
WeakReferent(w) == w

\* AIBinder_Weak_promote(weak): the handles it can return.  The referent with
\* one more strong unit while the referent is alive, nullptr once its strong
\* count reached zero or when the token is nullptr; on a token that was
\* already deleted the call reads freed memory and may also fail.
AIBinder_Weak_promote(w) ==
    IF w = Null THEN {Null}
    ELSE LET r == WeakReferent(w)
             normal == IF strong[r] > 0 THEN r ELSE Null
         IN  IF Freed(w) THEN {Null, normal} ELSE {normal}

\* A caller (not a wrapper) acquires a strong unit on h: AIBinder_new, an
\* out-parameter of the runtime, or its own AIBinder_incStrong.
ExtAcquire(t, h) ==
    /\ nops < MaxOps
    /\ t \in threads /\ pc[t] = "idle"
    /\ strong' = AIBinder_incStrong(strong, h)
    /\ ext' = [ext EXCEPT ![h] = @ + 1]
    /\ rec' = [rec EXCEPT ![t] = NoRec]
    /\ nops' = nops + 1
    /\ UNCHANGED <<boxVars, promoteRec, accVars, spState, mBinder, owner, nullDecs, copied,
                   threads, pc, self, binderArg, op>>

\* A caller releases a unit it still holds itself.
ExtRelease(t, h) ==
    /\ nops < MaxOps
    /\ t \in threads /\ pc[t] = "idle"
    /\ ext[h] > 0
    /\ strong' = AIBinder_decStrong(strong, h)
    /\ ext' = [ext EXCEPT ![h] = @ - 1]
    /\ rec' = [rec EXCEPT ![t] = NoRec]
    /\ nops' = nops + 1
    /\ UNCHANGED <<boxVars, promoteRec, accVars, spState, mBinder, owner, nullDecs, copied,
                   threads, pc, self, binderArg, op>>

-----------------------------------------------------------------------------
(* SpAIBinder *)

\* A constructor that drops its argument and starts from nullptr.
SpAIBinder_init_null(binder) == Null

\* Whether thread t may call a member function of instance i: it is the
\* instance's one user, or the instance was handed to every thread.
MayUse(t, i) == owner[i] = t \/ owner[i] = SharedByAll

\* explicit SpAIBinder(AIBinder* binder = nullptr) : mBinder(binder) {}
SpAIBinder_init(binder) == binder

\* SpAIBinder a(binder): adopts the unit the caller holds on binder.
SpAIBinder_ctor(t, i, h) ==
    /\ nops < MaxOps
    /\ t \in threads /\ pc[t] = "idle"
    /\ spState[i] = "unborn"
    /\ h # Null => ext[h] > 0
    /\ spState' = [spState EXCEPT ![i] = "live"]
    /\ mBinder' = [mBinder EXCEPT ![i] = SpAIBinder_init(h)]
    /\ owner' = [owner EXCEPT ![i] = t]
    /\ ext' = IF h = Null THEN ext ELSE [ext EXCEPT ![h] = @ - 1]
    /\ rec' = [rec EXCEPT ![t] = NoRec]
    /\ nops' = nops + 1
    /\ UNCHANGED <<boxVars, promoteRec, accVars, strong, nullDecs, copied, threads, pc, self,
                   binderArg, op>>

\* A promote() that takes a unit of its own besides the one the external
\* promote produced.
ScopedAIBinder_Weak_promote_inc(t, b, i) ==
    /\ nops < MaxOps
    /\ t \in threads /\ pc[t] = "idle"
    /\ kind = "AIBinder_Weak"
    /\ boxState[b] = "live"
    /\ spState[i] = "unborn"
    /\ \E got \in AIBinder_Weak_promote(mT[b]) :
        /\ strong' = AIBinder_incStrong(AIBinder_incStrong(strong, got), got)
        /\ spState' = [spState EXCEPT ![i] = "live"]
        /\ mBinder' = [mBinder EXCEPT ![i] = SpAIBinder_init(got)]
        /\ owner' = [owner EXCEPT ![i] = t]
        /\ promoteRec' = [kind |-> "promote", token |-> mT[b],
                          valid |-> (mT[b] # Null /\ ~Freed(mT[b])),
                          alive |-> (mT[b] # Null /\ strong[WeakReferent(mT[b])] > 0),
                          got |-> got, held |-> SpAIBinder_init(got), sp |-> i]
    /\ rec' = [rec EXCEPT ![t] = NoRec]
    /\ nops' = nops + 1
    /\ UNCHANGED <<boxVars, accVars, ext, nullDecs, copied, threads, pc, self,
                   binderArg, op>>

\* SpAIBinder promote() { return SpAIBinder(AIBinder_Weak_promote(get())); }
ScopedAIBinder_Weak_promote(t, b, i) ==
    /\ nops < MaxOps
    /\ t \in threads /\ pc[t] = "idle"
    /\ kind = "AIBinder_Weak"
    /\ boxState[b] = "live"
    /\ spState[i] = "unborn"
    /\ \E got \in AIBinder_Weak_promote(mT[b]) :
        /\ strong' = AIBinder_incStrong(strong, got)
        /\ spState' = [spState EXCEPT ![i] = "live"]
        /\ mBinder' = [mBinder EXCEPT ![i] = SpAIBinder_init(got)]
        /\ owner' = [owner EXCEPT ![i] = t]
        /\ promoteRec' = [kind |-> "promote", token |-> mT[b],
                          valid |-> (mT[b] # Null /\ ~Freed(mT[b])),
                          alive |-> (mT[b] # Null /\ strong[WeakReferent(mT[b])] > 0),
                          got |-> got, held |-> SpAIBinder_init(got), sp |-> i]
    /\ rec' = [rec EXCEPT ![t] = NoRec]
    /\ nops' = nops + 1
    /\ UNCHANGED <<boxVars, accVars, ext, nullDecs, copied, threads, pc, self,
                   binderArg, op>>


\* The record of a copy or assignment thread t begins: the source's handle
\* (h), the handle the target holds (tgt) and h's strong count at that moment.
OpRec(k, h, tgt) ==
    [kind |-> k, h |-> h, tgt |-> tgt, before |-> IF h = Null THEN 0 ELSE strong[h]]

\* An operator= that takes its unit on the handle the target holds instead
\* of the source's.
Assign_incTarget(t, i, j) ==
    /\ strong' = AIBinder_incStrong(strong, mBinder[i])
    /\ binderArg' = [binderArg EXCEPT ![t] = mBinder[j]]
    /\ self' = [self EXCEPT ![t] = i]
    /\ pc' = [pc EXCEPT ![t] = "set_dec"]

\* An operator= that adopts the source's handle without a unit of its own.
Assign_noInc(t, i, j) ==
    /\ strong' = strong
    /\ binderArg' = [binderArg EXCEPT ![t] = mBinder[j]]
    /\ self' = [self EXCEPT ![t] = i]
    /\ pc' = [pc EXCEPT ![t] = "set_dec"]

\* SpAIBinder& operator=(const SpAIBinder& other) {
\*     AIBinder_incStrong(other.mBinder);
\*     set(other.mBinder);  ...
\* The increment, and the call of set with the source's handle as argument.
Assign(t, i, j) ==
    /\ strong' = AIBinder_incStrong(strong, mBinder[j])
    /\ binderArg' = [binderArg EXCEPT ![t] = mBinder[j]]
    /\ self' = [self EXCEPT ![t] = i]
    /\ pc' = [pc EXCEPT ![t] = "set_dec"]

\* SpAIBinder(const SpAIBinder& other) { *this = other; }
\* The new instance starts from the member initializer mBinder = nullptr.
SpAIBinder_copy(t, i, j) ==
    /\ nops < MaxOps
    /\ t \in threads /\ pc[t] = "idle"
    /\ spState[i] = "unborn"
    /\ spState[j] = "live" /\ MayUse(t, j)
    /\ spState' = [spState EXCEPT ![i] = "live"]
    /\ mBinder' = [mBinder EXCEPT ![i] = Null]
    /\ owner' = [owner EXCEPT ![i] = t]
    /\ Assign(t, i, j)
    /\ op' = [op EXCEPT ![t] = "copy"]
    /\ rec' = [rec EXCEPT ![t] = OpRec("copy", mBinder[j], Null)]
    /\ nops' = nops + 1
    /\ copied' = (copied \/ mBinder[j] # Null)
    /\ UNCHANGED <<boxVars, promoteRec, accVars, ext, nullDecs, threads>>

\* a = b on two live instances of the thread (a = a included)
SpAIBinder_assign(t, i, j) ==
    /\ nops < MaxOps
    /\ t \in threads /\ pc[t] = "idle"
    /\ spState[i] = "live" /\ MayUse(t, i)
    /\ spState[j] = "live" /\ MayUse(t, j)
    /\ Assign(t, i, j)
    /\ op' = [op EXCEPT ![t] = "assign"]
    /\ rec' = [rec EXCEPT ![t] = OpRec("assign", mBinder[j], mBinder[i])]
    /\ nops' = nops + 1
    /\ copied' = (copied \/ mBinder[j] # Null)
    /\ UNCHANGED <<boxVars, promoteRec, accVars, spState, mBinder, owner, ext, nullDecs, threads>>

\* A set() that takes a unit of its own on its argument, as operator= does.
SpAIBinder_set_inc(t, i, h) ==
    /\ nops < MaxOps
    /\ t \in threads /\ pc[t] = "idle"
    /\ spState[i] = "live" /\ MayUse(t, i)
    /\ h # Null => ext[h] > 0
    /\ ext' = IF h = Null THEN ext ELSE [ext EXCEPT ![h] = @ - 1]
    /\ strong' = AIBinder_incStrong(strong, h)
    /\ binderArg' = [binderArg EXCEPT ![t] = h]
    /\ self' = [self EXCEPT ![t] = i]
    /\ pc' = [pc EXCEPT ![t] = "set_dec"]
    /\ op' = [op EXCEPT ![t] = "set"]
    /\ rec' = [rec EXCEPT ![t] = NoRec]
    /\ nops' = nops + 1
    /\ UNCHANGED <<boxVars, promoteRec, accVars, spState, mBinder, owner, nullDecs, copied,
                   threads>>

\* a.set(h): the caller hands over the unit it holds on h.
SpAIBinder_set(t, i, h) ==
    /\ nops < MaxOps
    /\ t \in threads /\ pc[t] = "idle"
    /\ spState[i] = "live" /\ MayUse(t, i)
    /\ h # Null => ext[h] > 0
    /\ ext' = IF h = Null THEN ext ELSE [ext EXCEPT ![h] = @ - 1]
    /\ binderArg' = [binderArg EXCEPT ![t] = h]
    /\ self' = [self EXCEPT ![t] = i]
    /\ pc' = [pc EXCEPT ![t] = "set_dec"]
    /\ op' = [op EXCEPT ![t] = "set"]
    /\ rec' = [rec EXCEPT ![t] = NoRec]
    /\ nops' = nops + 1
    /\ UNCHANGED <<boxVars, promoteRec, accVars, spState, mBinder, owner, strong, nullDecs, copied,
                   threads>>

\* ~SpAIBinder() { set(nullptr); }
SpAIBinder_dtor(t, i) ==
    /\ nops < MaxOps
    /\ t \in threads /\ pc[t] = "idle"
    /\ spState[i] = "live" /\ MayUse(t, i)
    /\ binderArg' = [binderArg EXCEPT ![t] = Null]
    /\ self' = [self EXCEPT ![t] = i]
    /\ pc' = [pc EXCEPT ![t] = "set_dec"]
    /\ op' = [op EXCEPT ![t] = "dtor"]
    /\ rec' = [rec EXCEPT ![t] = NoRec]
    /\ nops' = nops + 1
    /\ UNCHANGED <<boxVars, promoteRec, accVars, spState, mBinder, owner, strong, ext, nullDecs,
                   copied, threads>>

\* The user of instance i passes a reference to it to the other threads,
\* which from then on call its member functions with no synchronization.
Share(t, i) ==
    /\ nops < MaxOps
    /\ t \in threads /\ pc[t] = "idle"
    /\ spState[i] = "live" /\ owner[i] = t
    /\ owner' = [owner EXCEPT ![i] = SharedByAll]
    /\ rec' = [rec EXCEPT ![t] = NoRec]
    /\ nops' = nops + 1
    /\ UNCHANGED <<boxVars, promoteRec, accVars, spState, mBinder, strong, ext, nullDecs, copied,
                   threads, pc, self, binderArg, op>>

\* A set() that takes the held handle out of the field in the same step as it
\* releases it, so that no other thread can find it there.
set_dec_exchange(t) ==
    /\ pc[t] = "set_dec"
    /\ strong' = IF mBinder[self[t]] # Null
                 THEN AIBinder_decStrong(strong, mBinder[self[t]])
                 ELSE strong
    /\ mBinder' = [mBinder EXCEPT ![self[t]] = Null]
    /\ pc' = [pc EXCEPT ![t] = "set_store"]
    /\ UNCHANGED <<boxVars, promoteRec, accVars, spState, owner, ext, nullDecs, copied,
                   threads, self, binderArg, op, rec, nops>>

\* The call AIBinder_decStrong(h) made by a wrapper: its effect on the
\* count, and the log of the calls made with nullptr.
Call_decStrong(h) ==
    /\ strong' = AIBinder_decStrong(strong, h)
    /\ nullDecs' = IF h = Null THEN nullDecs + 1 ELSE nullDecs

\* A set() that calls AIBinder_decStrong without looking at the field.
set_dec_unguarded(t) ==
    /\ pc[t] = "set_dec"
    /\ Call_decStrong(mBinder[self[t]])
    /\ pc' = [pc EXCEPT ![t] = "set_store"]
    /\ UNCHANGED <<boxVars, promoteRec, accVars, spState, mBinder, owner, ext, copied,
                   threads, self, binderArg, op, rec, nops>>

\* A set() that never releases the unit of the handle it replaces.
set_dec_skip(t) ==
    /\ pc[t] = "set_dec"
    /\ pc' = [pc EXCEPT ![t] = "set_store"]
    /\ UNCHANGED <<boxVars, promoteRec, accVars, spVars, threads, self, binderArg, op, rec, nops>>

\* void set(AIBinder* binder) {
\*     if (mBinder != nullptr) AIBinder_decStrong(mBinder);
set_dec(t) ==
    /\ pc[t] = "set_dec"
    /\ IF mBinder[self[t]] # Null
       THEN Call_decStrong(mBinder[self[t]])
       ELSE UNCHANGED <<strong, nullDecs>>
    /\ pc' = [pc EXCEPT ![t] = "set_store"]
    /\ UNCHANGED <<boxVars, promoteRec, accVars, spState, mBinder, owner, ext, copied,
                   threads, self, binderArg, op, rec, nops>>

\*     mBinder = binder;
\* }
\* and the end of the operation that called set: a destructor ends the
\* instance's life, a copy constructor's result is handed to its user.
set_store(t) ==
    /\ pc[t] = "set_store"
    /\ mBinder' = [mBinder EXCEPT ![self[t]] = binderArg[t]]
    /\ spState' = IF op[t] = "dtor" THEN [spState EXCEPT ![self[t]] = "dead"]
                  ELSE spState
    /\ IF op[t] = "copy"
       THEN \E u \in threads : owner' = [owner EXCEPT ![self[t]] = u]
       ELSE owner' = owner
    /\ pc' = [pc EXCEPT ![t] = "idle"]
    /\ self' = [self EXCEPT ![t] = 1]
    /\ binderArg' = [binderArg EXCEPT ![t] = Null]
    /\ op' = [op EXCEPT ![t] = "none"]
    /\ rec' = [rec EXCEPT ![t] = NoRec]
    /\ UNCHANGED <<boxVars, promoteRec, accVars, strong, ext, nullDecs, copied, threads, nops>>

-----------------------------------------------------------------------------
(* The accessors get() and getR() *)

\* A get() that gives the handle away, leaving the box empty.
ScopedA_get_release(b) ==
    /\ nops < MaxOps
    /\ boxState[b] = "live"
    /\ getRec' = [kind |-> "ScopedA", obj |-> b, ret |-> mT[b], at |-> nops]
    /\ mT' = [mT EXCEPT ![b] = Null]
    /\ nops' = nops + 1
    /\ UNCHANGED <<kind, boxState, movedFrom, storedIn, destroyedBy, nullDestroys, fresh,
                   isOkRec, promoteRec, slotLost, spVars, threads, thrVars>>

\* T* get() { return mT; }
ScopedA_get(b) ==
    /\ nops < MaxOps
    /\ boxState[b] = "live"
    /\ getRec' = [kind |-> "ScopedA", obj |-> b, ret |-> mT[b], at |-> nops]
    /\ nops' = nops + 1
    /\ UNCHANGED <<boxVars, promoteRec, slotLost, spVars, threads, thrVars>>

\* AIBinder* get() const { return mBinder; }
SpAIBinder_get(t, i) ==
    /\ nops < MaxOps
    /\ t \in threads /\ pc[t] = "idle"
    /\ spState[i] = "live" /\ MayUse(t, i)
    /\ getRec' = [kind |-> "SpAIBinder", obj |-> i, ret |-> mBinder[i], at |-> nops]
    /\ nops' = nops + 1
    /\ UNCHANGED <<boxVars, promoteRec, slotLost, spVars, threads, thrVars>>

\* A write through the slot that first destroys the handle it replaces, as
\* set() does.
ScopedA_getR_destroy(b, t) ==
    /\ nops < MaxOps
    /\ boxState[b] = "live"
    /\ set(b, t)
    /\ Stored(b, t)
    /\ slotLost' = IF mT[b] = Null THEN slotLost
                   ELSE [slotLost EXCEPT ![b][mT[b]] = @ + 1]
    /\ movedFrom' = [movedFrom EXCEPT ![b] = FALSE]
    /\ nops' = nops + 1
    /\ UNCHANGED <<kind, boxState, isOkRec, promoteRec, getRec, spVars, threads, thrVars>>

\* T** getR() { return &mT; }  and the caller's write *slot = t: the field
\* takes the new value and nothing else happens; the handle that was there
\* is the caller's from now on.
ScopedA_getR(b, t) ==
    /\ nops < MaxOps
    /\ boxState[b] = "live"
    /\ mT' = [mT EXCEPT ![b] = t]
    /\ Stored(b, t)
    /\ slotLost' = IF mT[b] = Null THEN slotLost
                   ELSE [slotLost EXCEPT ![b][mT[b]] = @ + 1]
    /\ movedFrom' = [movedFrom EXCEPT ![b] = FALSE]
    /\ nops' = nops + 1
    /\ UNCHANGED <<kind, boxState, destroyedBy, nullDestroys, isOkRec, promoteRec, getRec,
                   spVars, threads, thrVars>>

\* The callers' units after a write of h over g through the slot: the unit
\* on h goes to the instance, the one the instance had on g to the caller.
SlotExchange(g, h) ==
    [x \in Handles |-> ext[x] - (IF x = h THEN 1 ELSE 0) + (IF x = g THEN 1 ELSE 0)]

\* AIBinder** getR() { return &mBinder; }  and the caller's write *slot = h.
SpAIBinder_getR(t, i, h) ==
    /\ nops < MaxOps
    /\ t \in threads /\ pc[t] = "idle"
    /\ spState[i] = "live" /\ MayUse(t, i)
    /\ h # Null => ext[h] > 0
    /\ mBinder' = [mBinder EXCEPT ![i] = h]
    /\ ext' = SlotExchange(mBinder[i], h)
    /\ rec' = [rec EXCEPT ![t] = NoRec]
    /\ nops' = nops + 1
    /\ UNCHANGED <<boxVars, promoteRec, accVars, spState, owner, strong, nullDecs, copied,
                   threads, pc, self, binderArg, op>>

-----------------------------------------------------------------------------
(* Specifications *)

\* Spec: the boxes (ScopedA and its four specializations) of one thread.
Init ==
    /\ InitCommon
    /\ threads = {1}

Next ==
    \/ \E b \in Boxes, t \in HandleOrNull : ScopedA_ctor(b, t)
    \/ \E b \in Boxes, t \in HandleOrNull : ScopedA_set(b, t)
    \/ \E b \in Boxes : ScopedA_dtor(b)
    \/ \E dst \in Boxes, src \in Boxes : ScopedA_move(dst, src)
    \/ \E b \in Boxes : ScopedAStatus_isOk(b)

Spec == Init /\ [][Next]_vars

\* SpecWeak: boxes holding weak tokens, the callers' strong units on the
\* referents, and the strong references promote() returns.
InitWeak ==
    /\ InitCommon
    /\ kind = "AIBinder_Weak"
    /\ threads = {1}

NextWeak ==
    \/ \E b \in Boxes, t \in HandleOrNull : ScopedA_ctor(b, t)
    \/ \E b \in Boxes, t \in HandleOrNull : ScopedA_set(b, t)
    \/ \E b \in Boxes : ScopedA_dtor(b)
    \/ \E dst \in Boxes, src \in Boxes : ScopedA_move(dst, src)
    \/ \E t \in threads, b \in Boxes, i \in Sps : ScopedAIBinder_Weak_promote(t, b, i)
    \/ \E t \in threads, h \in Handles : ExtAcquire(t, h)
    \/ \E t \in threads, h \in Handles : ExtRelease(t, h)
    \/ \E t \in threads, i \in Sps : SpAIBinder_dtor(t, i)
    \/ \E t \in threads : set_dec(t)
    \/ \E t \in threads : set_store(t)

SpecWeak == InitWeak /\ [][NextWeak]_vars

\* SpecSp: the strong references used by one thread.
InitSp ==
    /\ InitCommon
    /\ kind = "AParcel"
    /\ threads = {1}

NextSp ==
    \/ \E t \in threads, h \in Handles : ExtAcquire(t, h)
    \/ \E t \in threads, h \in Handles : ExtRelease(t, h)
    \/ \E t \in threads, i \in Sps, h \in HandleOrNull : SpAIBinder_ctor(t, i, h)
    \/ \E t \in threads, i \in Sps, j \in Sps : SpAIBinder_copy(t, i, j)
    \/ \E t \in threads, i \in Sps, j \in Sps : SpAIBinder_assign(t, i, j)
    \/ \E t \in threads, i \in Sps, h \in HandleOrNull : SpAIBinder_set(t, i, h)
    \/ \E t \in threads, i \in Sps : SpAIBinder_dtor(t, i)
    \/ \E t \in threads : set_dec(t)
    \/ \E t \in threads : set_store(t)

SpecSp == InitSp /\ [][NextSp]_vars

\* SpecConc: the same operations run by several threads, each on the
\* instances it owns.
InitConc ==
    /\ InitCommon
    /\ kind = "AParcel"
    /\ threads = AllThreads

SpecConc == InitConc /\ [][NextSp]_vars

\* SpecRace: several threads, and instances that were handed to all of them:
\* set, copy assignment and destruction of one instance may then overlap.
InitRace ==
    /\ InitCommon
    /\ kind = "AParcel"
    /\ threads = AllThreads

NextRace ==
    \/ \E t \in threads, h \in Handles : ExtAcquire(t, h)
    \/ \E t \in threads, i \in Sps, h \in HandleOrNull : SpAIBinder_ctor(t, i, h)
    \/ \E t \in threads, i \in Sps : Share(t, i)
    \/ \E t \in threads, i \in Sps, j \in Sps : SpAIBinder_assign(t, i, j)
    \/ \E t \in threads, i \in Sps, h \in HandleOrNull : SpAIBinder_set(t, i, h)
    \/ \E t \in threads, i \in Sps : SpAIBinder_dtor(t, i)
    \/ \E t \in threads : set_dec(t)
    \/ \E t \in threads : set_store(t)

SpecRace == InitRace /\ [][NextRace]_vars

\* SpecSlot: boxes and strong references used by one thread through their
\* constructors, set(), destructors and writes through the slot of getR().
InitSlot ==
    /\ InitCommon
    /\ kind = "AParcel"
    /\ threads = {1}

NextSlot ==
    \/ \E b \in Boxes, t \in HandleOrNull : ScopedA_ctor(b, t)
    \/ \E b \in Boxes, t \in HandleOrNull : ScopedA_set(b, t)
    \/ \E b \in Boxes : ScopedA_dtor(b)
    \/ \E b \in Boxes, t \in HandleOrNull : ScopedA_getR(b, t)
    \/ \E t \in threads, h \in Handles : ExtAcquire(t, h)
    \/ \E t \in threads, i \in Sps, h \in HandleOrNull : SpAIBinder_ctor(t, i, h)
    \/ \E t \in threads, i \in Sps, h \in HandleOrNull : SpAIBinder_set(t, i, h)
    \/ \E t \in threads, i \in Sps : SpAIBinder_dtor(t, i)
    \/ \E t \in threads, i \in Sps, h \in HandleOrNull : SpAIBinder_getR(t, i, h)
    \/ \E t \in threads : set_dec(t)
    \/ \E t \in threads : set_store(t)

SpecSlot == InitSlot /\ [][NextSlot]_vars

\* SpecGet: the same objects read through get().
InitGet ==
    /\ InitCommon
    /\ kind = "AParcel"
    /\ threads = {1}

NextGet ==
    \/ \E b \in Boxes, t \in HandleOrNull : ScopedA_ctor(b, t)
    \/ \E b \in Boxes, t \in HandleOrNull : ScopedA_set(b, t)
    \/ \E b \in Boxes : ScopedA_dtor(b)
    \/ \E b \in Boxes : ScopedA_get(b)
    \/ \E t \in threads, h \in Handles : ExtAcquire(t, h)
    \/ \E t \in threads, i \in Sps, h \in HandleOrNull : SpAIBinder_ctor(t, i, h)
    \/ \E t \in threads, i \in Sps, h \in HandleOrNull : SpAIBinder_set(t, i, h)
    \/ \E t \in threads, i \in Sps : SpAIBinder_dtor(t, i)
    \/ \E t \in threads, i \in Sps : SpAIBinder_get(t, i)
    \/ \E t \in threads : set_dec(t)
    \/ \E t \in threads : set_store(t)

SpecGet == InitGet /\ [][NextGet]_vars

-----------------------------------------------------------------------------
(* Properties of ScopedA and its specializations (Spec) *)

\* Whether box b holds h right now.
Held(b, h) == boxState[b] = "live" /\ mT[b] = h

\* C1 as stated: for every box, each distinct non-null handle ever stored in
\* it has been passed to Destroy exactly once as soon as the box no longer
\* holds it (it was replaced, or the box was destroyed), and not before.
C1_OncePerDistinctHandle ==
    \A b \in Boxes, h \in Handles :
        storedIn[b][h] > 0 =>
            destroyedBy[b][h] = IF Held(b, h) THEN 0 ELSE 1

\* C1 amended: Destroy is invoked on a non-null handle exactly once for each
\* time the handle was stored in the box; the call is made in the step that
\* replaces the stored value or destroys the box, by the box that holds it.
C1_OncePerStore ==
    /\ [](\A b \in Boxes, h \in Handles :
            destroyedBy[b][h] = storedIn[b][h] - (IF Held(b, h) THEN 1 ELSE 0))
    /\ [][\A b \in Boxes, h \in Handles :
            destroyedBy'[b][h] # destroyedBy[b][h] =>
                /\ destroyedBy'[b][h] = destroyedBy[b][h] + 1
                /\ Held(b, h)
                /\ \/ boxState'[b] = "dead"
                   \/ mT'[b] # h
                   \/ storedIn'[b][h] = storedIn[b][h] + 1]_vars

\* A box that was destroyed after the same handle was stored in it twice:
\* the handle was passed to Destroy twice.
C1_Witness ==
    \E b \in Boxes, h \in Handles :
        /\ boxState[b] = "dead"
        /\ storedIn[b][h] = 2
        /\ destroyedBy[b][h] = 2

\* C2 as stated: the source of a move construction holds null afterwards, so
\* that its destruction passes nothing but null to Destroy.
C2_MoveNullsSource ==
    \A b \in Boxes : (boxState[b] = "live" /\ movedFrom[b]) => mT[b] = Null

\* C3 as stated: while every handle passed to construct or set is fresh, no
\* two live boxes hold the same non-null handle.
C3_SingleOwner ==
    fresh =>
        \A b1 \in Boxes, b2 \in Boxes :
            (b1 # b2 /\ boxState[b1] = "live" /\ boxState[b2] = "live"
                /\ mT[b1] # Null) => mT[b1] # mT[b2]

\* C7 as stated: Destroy is never invoked with null.
C7_NullNeverPassed ==
    \A b \in Boxes : nullDestroys[b] = 0

\* The Destroy calls box b makes in a step in which it passes the handle it
\* holds to Destroy once, and nothing else.
DestroysHeld(b) ==
    IF mT[b] = Null
    THEN /\ nullDestroys' = [nullDestroys EXCEPT ![b] = @ + 1]
         /\ destroyedBy' = destroyedBy
    ELSE /\ destroyedBy' = [destroyedBy EXCEPT ![b][mT[b]] = @ + 1]
         /\ nullDestroys' = nullDestroys

\* C7 amended: set and the destructor pass the held handle to Destroy
\* unconditionally, null included.  A destructor step, and a set step that
\* stores a non-null handle, make exactly one Destroy call, with the handle
\* the box held; a constructor makes none; and no box ever passes to Destroy
\* a non-null handle other than the one it holds.
C7_DestroyGetsHeldHandle ==
    [][\A b \in Boxes :
        /\ (boxState[b] = "live" /\ boxState'[b] = "dead") => DestroysHeld(b)
        /\ (boxState[b] = "live" /\ boxState'[b] = "live"
              /\ storedIn'[b] # storedIn[b]) => DestroysHeld(b)
        /\ boxState[b] = "unborn" =>
              (nullDestroys'[b] = nullDestroys[b] /\ destroyedBy'[b] = destroyedBy[b])
        /\ \A h \in Handles :
              destroyedBy'[b][h] # destroyedBy[b][h] => Held(b, h)]_vars

\* A box that never held a handle and was destroyed: one Destroy call, with
\* null.
C7_Witness ==
    \E b \in Boxes :
        /\ boxState[b] = "dead"
        /\ \A h \in Handles : storedIn[b][h] = 0 /\ destroyedBy[b][h] = 0
        /\ nullDestroys[b] = 1

\* C8: isOk() returns true iff the held handle is non-null and the external
\* predicate reports success for it; on a null handle it returns false and
\* the external predicate is not called.
C8_IsOk ==
    isOkRec.kind = "isOk" =>
        /\ isOkRec.result = (isOkRec.held # Null /\ isOkRec.ext)
        /\ isOkRec.called = (isOkRec.held # Null)
        /\ isOkRec.held = Null => ~isOkRec.result
        /\ (isOkRec.held # Null /\ ~Freed(isOkRec.held)) =>
              isOkRec.result = (isOkRec.held \in OkStatuses)

\* isOk() was called on a box holding null: false, no external call.
C8_Witness ==
    /\ isOkRec.kind = "isOk"
    /\ isOkRec.held = Null
    /\ ~isOkRec.called
    /\ ~isOkRec.result

-----------------------------------------------------------------------------
(* Properties of SpAIBinder (SpecSp, SpecConc) and of promote (SpecWeak) *)

\* The live instances whose field holds h.
Holders(h) == {i \in Sps : spState[i] = "live" /\ mBinder[i] = h}

\* The instances that still own a unit on h: those of Holders(h) whose set()
\* in progress has not yet released it.
StillHolds(h) ==
    {i \in Holders(h) : ~\E t \in threads : pc[t] = "set_store" /\ self[t] = i}

\* No thread is inside an operation.
Quiescent == \A t \in threads : pc[t] = "idle"

\* Thread t is inside an assignment whose source and target hold the same
\* non-null handle.
SameHandleAssign(t) ==
    /\ pc[t] # "idle"
    /\ rec[t].kind = "assign"
    /\ rec[t].h # Null
    /\ rec[t].h = rec[t].tgt

C5_CountMatchesOwners ==
    \A h \in Handles :
        /\ strong[h] >= 0
        /\ Quiescent => strong[h] = Cardinality(Holders(h)) + ext[h]
        /\ (Quiescent /\ Holders(h) = {} /\ ext[h] = 0) => strong[h] = 0

\* Two instances hold the same handle and its count is 2.
C5_Witness ==
    \E h \in Handles :
        /\ Quiescent
        /\ Cardinality(Holders(h)) = 2
        /\ ext[h] = 0
        /\ strong[h] = 2

\* C6: during a copy assignment whose source and target hold the same
\* handle H (a = a included), H's strong count is never lower than it was
\* when the assignment began and never zero; after the release of the
\* target's previous unit it equals the count before the assignment, and the
\* final store leaves it there with the target holding H.
C6_SameHandleAssign ==
    /\ [](\A t \in threads :
            SameHandleAssign(t) =>
                /\ strong[rec[t].h] >= rec[t].before
                /\ strong[rec[t].h] > 0
                /\ pc[t] = "set_store" => strong[rec[t].h] = rec[t].before)
    /\ [][\A t \in threads :
            (SameHandleAssign(t) /\ pc[t] = "set_store" /\ pc'[t] = "idle") =>
                /\ strong'[rec[t].h] = rec[t].before
                /\ mBinder'[self[t]] = rec[t].h]_vars

\* An instance that is the sole owner of H is assigned to itself and has
\* just released its previous unit: the count is 1, as before.
C6_Witness ==
    \E t \in threads :
        /\ SameHandleAssign(t)
        /\ pc[t] = "set_store"
        /\ rec[t].before = 1
        /\ strong[rec[t].h] = 1
        /\ Cardinality(Holders(rec[t].h)) = 1

\* C9: promote() on a valid weak token whose referent's strong count is zero
\* returns an SpAIBinder holding null; on one whose referent is alive it
\* returns an SpAIBinder holding the referent's non-null handle; on a null
\* token it returns an SpAIBinder holding null.
C9_Promote ==
    promoteRec.kind = "promote" =>
        /\ (promoteRec.valid /\ promoteRec.alive) =>
              (promoteRec.held = WeakReferent(promoteRec.token) /\ promoteRec.held # Null)
        /\ (promoteRec.valid /\ ~promoteRec.alive) => promoteRec.held = Null
        /\ promoteRec.token = Null => promoteRec.held = Null
        /\ promoteRec.held = promoteRec.got

\* promote() was called on a valid token whose referent was alive and
\* returned the referent, which the returned instance still holds.
C9_Witness ==
    /\ promoteRec.kind = "promote"
    /\ promoteRec.valid /\ promoteRec.alive
    /\ promoteRec.held = WeakReferent(promoteRec.token)
    /\ spState[promoteRec.sp] = "live"
    /\ mBinder[promoteRec.sp] = promoteRec.held

\* C10: with several threads each working on its own instances, H's strong
\* count is at least the number of instances that still hold H, so never
\* zero while one does, in every interleaving; and when no operation is in
\* progress it is the number of live instances holding H plus the units
\* callers still hold themselves.
C10_NoZeroWhileHeld ==
    \A h \in Handles :
        /\ strong[h] >= Cardinality(StillHolds(h))
        /\ StillHolds(h) # {} => strong[h] > 0
        /\ Quiescent => strong[h] - ext[h] = Cardinality(Holders(h))

\* Two threads are inside operations on their own instances of the same
\* handle: one has released its unit, the other still holds H.
C10_Witness ==
    \E t1 \in threads, t2 \in threads, h \in Handles :
        /\ t1 # t2
        /\ pc[t1] = "set_store" /\ pc[t2] = "set_dec"
        /\ self[t1] # self[t2]
        /\ owner[self[t1]] = t1 /\ owner[self[t2]] = t2
        /\ mBinder[self[t1]] = h /\ mBinder[self[t2]] = h
        /\ spState[self[t1]] = "live" /\ spState[self[t2]] = "live"
        /\ strong[h] = 1

\* C11: a.set(h) on an instance holding g performs no increment: beginning
\* it changes no count and takes h from the caller; its release step lowers
\* g's count by exactly 1 when g is non-null and changes nothing when g is
\* null, every other handle's count staying as it was; its last step changes
\* no count and leaves the instance live and holding h.
C11_SetFrame ==
    [][\A t \in threads :
        /\ (pc[t] = "idle" /\ pc'[t] = "set_dec" /\ op'[t] = "set") =>
              /\ strong' = strong
              /\ mBinder' = mBinder
              /\ \A h \in Handles : ext'[h] = ext[h] - 1 => binderArg'[t] = h
              /\ ext' = ext => binderArg'[t] = Null
        /\ (pc[t] = "set_dec" /\ pc'[t] = "set_store" /\ op[t] = "set") =>
              /\ strong' = IF mBinder[self[t]] = Null THEN strong
                           ELSE [strong EXCEPT ![mBinder[self[t]]] = @ - 1]
              /\ mBinder' = mBinder
              /\ binderArg'[t] = binderArg[t]
              /\ nullDecs' = nullDecs
        /\ (pc[t] = "set_store" /\ pc'[t] = "idle" /\ op[t] = "set") =>
              /\ strong' = strong
              /\ spState'[self[t]] = "live"
              /\ mBinder' = [mBinder EXCEPT ![self[t]] = binderArg[t]]]_vars

\* A set(h) on an instance that is the sole owner of g, h different from g,
\* has released g and is about to store h: g's count is zero and h's is the
\* one unit the caller handed over.
C11_Witness ==
    \E t \in threads :
        /\ pc[t] = "set_store" /\ op[t] = "set"
        /\ mBinder[self[t]] # Null
        /\ binderArg[t] # Null
        /\ binderArg[t] # mBinder[self[t]]
        /\ strong[mBinder[self[t]]] = 0
        /\ strong[binderArg[t]] = 1
        /\ ext[binderArg[t]] = 0

\* C12: promote() performs no strong-count increment of its own.  The step
\* that promotes changes the counts by exactly the one unit the external
\* promote produced on the handle it returned (none when it returned null),
\* hands that handle to the returned SpAIBinder, and leaves the box, the
\* token it holds and the Destroy calls as they were; the destruction of a
\* reference obtained this way lowers the count of the handle it holds by
\* exactly 1 in its release step and changes no count otherwise, so promote
\* followed by the destruction of its result leaves the count where it was;
\* and between operations every count is the number of live references
\* holding the handle plus the callers' own units.
C12_PromoteFrame ==
    /\ [][/\ promoteRec' # promoteRec =>
               /\ strong' = IF promoteRec'.got = Null THEN strong
                            ELSE [strong EXCEPT ![promoteRec'.got] = @ + 1]
               /\ spState'[promoteRec'.sp] = "live"
               /\ mBinder'[promoteRec'.sp] = promoteRec'.got
               /\ ext' = ext
               /\ boxVars' = boxVars
          /\ \A t \in threads :
               /\ (pc[t] = "idle" /\ pc'[t] = "set_dec" /\ op'[t] = "dtor") =>
                     strong' = strong
               /\ (pc[t] = "set_dec" /\ pc'[t] = "set_store" /\ op[t] = "dtor") =>
                     strong' = IF mBinder[self[t]] = Null THEN strong
                               ELSE [strong EXCEPT ![mBinder[self[t]]] = @ - 1]
               /\ (pc[t] = "set_store" /\ pc'[t] = "idle" /\ op[t] = "dtor") =>
                     strong' = strong]_vars
    /\ [](Quiescent =>
            \A h \in Handles : strong[h] = Cardinality(Holders(h)) + ext[h])

\* promote() returned a live referent, the returned reference was destroyed,
\* and the referent's count is again the callers' own units, as before the
\* promote; the box still holds its token, which was never destroyed.
C12_Witness ==
    /\ promoteRec.kind = "promote"
    /\ promoteRec.got # Null
    /\ spState[promoteRec.sp] = "dead"
    /\ Quiescent
    /\ Holders(promoteRec.got) = {}
    /\ strong[promoteRec.got] = ext[promoteRec.got]
    /\ strong[promoteRec.got] > 0
    /\ \E b \in Boxes :
        /\ boxState[b] = "live"
        /\ mT[b] = promoteRec.token
        /\ destroyedBy[b][promoteRec.token] = 0

-----------------------------------------------------------------------------
(* Unsynchronized use of one SpAIBinder by several threads (SpecRace) *)

\* C13: set() is not atomic.  Its release step reads the field, decrements
\* the handle it finds there and leaves the field as it was until the later
\* store, whatever the other threads are doing with the same instance; so a
\* second thread that reaches its own release step before the first one's
\* store finds the same handle and decrements it again (the state of
\* C13_Witness).  While no instance has been handed to several threads no
\* count is lower than the number of instances that still hold the handle.
C13_SetNotAtomic ==
    /\ [][\A t \in threads :
            (pc[t] = "set_dec" /\ pc'[t] = "set_store") =>
                /\ mBinder' = mBinder
                /\ mBinder[self[t]] # Null =>
                      strong' = [strong EXCEPT ![mBinder[self[t]]] = @ - 1]
                /\ mBinder[self[t]] = Null => strong' = strong]_vars
    /\ []((\A i \in Sps : owner[i] # SharedByAll) =>
            \A h \in Handles : strong[h] >= Cardinality(StillHolds(h)))

\* Two threads are inside set(nullptr), a destructor or an assignment on the
\* same instance, the only owner of one unit on h; both have passed the
\* release step and neither has stored: h was decremented twice and its
\* count is one below zero.
C13_Witness ==
    \E t1 \in threads, t2 \in threads, h \in Handles :
        /\ t1 # t2
        /\ pc[t1] = "set_store" /\ pc[t2] = "set_store"
        /\ self[t1] = self[t2]
        /\ owner[self[t1]] = SharedByAll
        /\ spState[self[t1]] = "live"
        /\ mBinder[self[t1]] = h
        /\ Holders(h) = {self[t1]}
        /\ binderArg[t1] # h /\ binderArg[t2] # h
        /\ ext[h] = 0
        /\ strong[h] = -1

-----------------------------------------------------------------------------
(* The null handle (SpecSp) *)

\* Thread t begins, makes the release step of, or ends an operation.
Begins(t) == pc[t] = "idle" /\ pc'[t] = "set_dec"
Releases(t) == pc[t] = "set_dec" /\ pc'[t] = "set_store"
Ends(t) == pc[t] = "set_store" /\ pc'[t] = "idle"

\* The operation of thread t is a copy construction or copy assignment from
\* a source that held null when it began.
FromNull(o, r) == o \in {"copy", "assign"} /\ r.h = Null

\* The operation of thread t is a destructor or a set(nullptr).
ToNull(o, arg) == o = "dtor" \/ (o = "set" /\ arg = Null)

\* C14 as stated: destroying an instance that holds null, set(nullptr) on
\* it, and copy-constructing or copy-assigning from it change no handle's
\* strong count in any of their steps, and the copy holds null afterwards.
C14_NullAbsorbing ==
    [][\A t \in threads :
        /\ (Begins(t) /\ FromNull(op'[t], rec'[t])) => strong' = strong
        /\ (Begins(t) /\ ToNull(op'[t], binderArg'[t]) /\ mBinder[self'[t]] = Null) =>
              strong' = strong
        /\ (Releases(t) /\ FromNull(op[t], rec[t])) => strong' = strong
        /\ (Releases(t) /\ ToNull(op[t], binderArg[t]) /\ mBinder[self[t]] = Null) =>
              strong' = strong
        /\ (Ends(t) /\ FromNull(op[t], rec[t])) =>
              (strong' = strong /\ mBinder'[self[t]] = Null)
        /\ (Ends(t) /\ ToNull(op[t], binderArg[t]) /\ mBinder[self[t]] = Null) =>
              (strong' = strong /\ mBinder'[self[t]] = Null)]_vars

\* C14 amended: destroying an instance that holds null and set(nullptr) on it
\* change no count; copy-constructing or copy-assigning from it performs no
\* increment and leaves the copy holding null, and the only count such an
\* assignment changes is that of the handle its target held before, which
\* the release step lowers by exactly 1 (nothing when the target held null,
\* as a newly constructed copy does).
C14_NullSourceNoIncrement ==
    [][\A t \in threads :
        /\ (Begins(t) /\ FromNull(op'[t], rec'[t])) => strong' = strong
        /\ (Begins(t) /\ ToNull(op'[t], binderArg'[t]) /\ mBinder[self'[t]] = Null) =>
              strong' = strong
        /\ (Releases(t) /\ FromNull(op[t], rec[t])) =>
              /\ strong' = IF rec[t].tgt = Null THEN strong
                           ELSE [strong EXCEPT ![rec[t].tgt] = @ - 1]
              /\ op[t] = "copy" => rec[t].tgt = Null
        /\ (Releases(t) /\ ToNull(op[t], binderArg[t]) /\ mBinder[self[t]] = Null) =>
              strong' = strong
        /\ (Ends(t) /\ FromNull(op[t], rec[t])) =>
              (strong' = strong /\ mBinder'[self[t]] = Null)
        /\ (Ends(t) /\ ToNull(op[t], binderArg[t]) /\ mBinder[self[t]] = Null) =>
              (strong' = strong /\ mBinder'[self[t]] = Null)]_vars

\* An instance that was the sole owner of g is being assigned from an
\* instance holding null: g's unit has been released, its count is zero, and
\* null is about to be stored.
C14_Witness ==
    \E t \in threads :
        /\ pc[t] = "set_store"
        /\ FromNull(op[t], rec[t])
        /\ rec[t].tgt # Null
        /\ mBinder[self[t]] = rec[t].tgt
        /\ binderArg[t] = Null
        /\ strong[rec[t].tgt] = 0

-----------------------------------------------------------------------------
(* The guard of the decrement (SpecConc) *)

\* C17: no SpAIBinder operation (construction, copy construction, copy
\* assignment, set, destruction) ever calls AIBinder_decStrong with null:
\* the number of such calls stays zero, and a release step that finds null
\* in the field changes no count.
C17_NoNullDecrement ==
    /\ [](nullDecs = 0)
    /\ [][\A t \in threads :
            (pc[t] = "set_dec" /\ pc'[t] = "set_store" /\ mBinder[self[t]] = Null) =>
                strong' = strong]_vars

\* A destructor has run its release step on an instance that holds null,
\* while an instance holding a handle exists, and no call with null was made.
C17_Witness ==
    \E t \in threads :
        /\ pc[t] = "set_store"
        /\ op[t] = "dtor"
        /\ spState[self[t]] = "live"
        /\ mBinder[self[t]] = Null
        /\ \E h \in Handles : Holders(h) # {}
        /\ nullDecs = 0

-----------------------------------------------------------------------------
(* The accessors (SpecSlot, SpecGet) *)

\* C15: a handle written through the slot of getR() is owned by the box as
\* if it had been passed to set.  For ScopedA: the write itself makes no
\* Destroy call, and at every moment the Destroy calls a box made on h are
\* the times h was stored in it (by the constructor, by set or through the
\* slot), less one while it holds h, less the times h was overwritten
\* through the slot: a written handle is destroyed exactly once, when set or
\* the destructor replaces it, and an overwritten one never.  For
\* SpAIBinder: the write changes no strong count, and between operations
\* every count is the number of live instances holding the handle plus the
\* callers' own units, the overwritten handle's unit being the caller's
\* again: the written handle is decremented once when replaced by set or at
\* destruction, the overwritten one never by the instance.
C15_SlotOwnership ==
    /\ [](\A b \in Boxes, h \in Handles :
            destroyedBy[b][h] =
                storedIn[b][h] - (IF Held(b, h) THEN 1 ELSE 0) - slotLost[b][h])
    /\ [](Quiescent =>
            \A h \in Handles : strong[h] = Cardinality(Holders(h)) + ext[h])
    /\ [][/\ (\E b \in Boxes : boxState[b] = "live" /\ boxState'[b] = "live"
                                 /\ mT'[b] # mT[b] /\ mT[b] # Null
                                 /\ slotLost'[b][mT[b]] = slotLost[b][mT[b]] + 1) =>
               (destroyedBy' = destroyedBy /\ nullDestroys' = nullDestroys)
          /\ (mBinder' # mBinder /\ pc' = pc /\ spState' = spState) =>
               (strong' = strong /\ nullDecs' = nullDecs)]_vars

\* A box constructed on g had h written over g through the slot and was
\* then destroyed: h was destroyed once and g never.
C15_Witness ==
    \E b \in Boxes, g \in Handles, h \in Handles :
        /\ g # h
        /\ boxState[b] = "dead"
        /\ storedIn[b][g] = 1 /\ slotLost[b][g] = 1 /\ destroyedBy[b][g] = 0
        /\ storedIn[b][h] = 1 /\ slotLost[b][h] = 0 /\ destroyedBy[b][h] = 1

\* C16: get() on a box or on a strong reference returns the handle held at
\* that moment and changes nothing: the fields, the Destroy calls, the
\* strong counts and everything else are the same after the call.
C16_GetFrame ==
    [][getRec' # getRec =>
        /\ getRec'.kind = "ScopedA" =>
              (boxState[getRec'.obj] = "live" /\ getRec'.ret = mT[getRec'.obj])
        /\ getRec'.kind = "SpAIBinder" =>
              (spState[getRec'.obj] = "live" /\ getRec'.ret = mBinder[getRec'.obj])
        /\ UNCHANGED <<boxVars, promoteRec, slotLost, spVars, threads, thrVars>>]_vars

\* get() was called on a live box that holds a handle and returned it; the
\* box still holds the handle and has destroyed nothing.
C16_Witness ==
    /\ getRec.kind = "ScopedA"
    /\ getRec.ret # Null
    /\ boxState[getRec.obj] = "live"
    /\ mT[getRec.obj] = getRec.ret
    /\ destroyedBy[getRec.obj][getRec.ret] = 0
    /\ \E i \in Sps : spState[i] = "live" /\ mBinder[i] # Null

=============================================================================
